---- MODULE Spec2Model ----
(***************************************************************************)
(* A model of the Standard Bots live reader (src/pages/app.py): the        *)
(* helpers _discover_methods, _resolve_method and _call_ok_unwrap, the     *)
(* presets handlers of the sidebar and of the two modes, the script run    *)
(* of the page with its connection scopes and its refresh step, and the    *)
(* rolling history of the polling variants.                                *)
(*                                                                         *)
(* Strings are sequences of tokens: a dotted path "movement.brakes" is     *)
(* <<"movement", ".", "brakes">>, a JSON text is the sequence of its       *)
(* punctuation, whitespace and string-content tokens.  Python's None is    *)
(* the string "None" where the other values are strings.                   *)
(***************************************************************************)
EXTENDS Integers, Sequences, FiniteSets, TLC

VARIABLES
    \* ---- rolling history (polling variants)
    history,        \* the session's history buffer: a sequence of samples
    ticks,          \* number of poll ticks made so far
    \* ---- _call_ok_unwrap
    call_in,        \* the behaviour of the method and of its response
    call_out,       \* what _call_ok_unwrap returned (PendingRes before the call)
    \* ---- presets
    presets,        \* st.session_state["presets"]
    file,           \* the text at PRESETS_PATH, or NoFile
    last_saved,     \* the list the most recent successful Save wrote (NoSave: none yet)
    last_op,        \* the handler that ran last, its outcome, the presets before it
    discovered_methods, \* st.session_state["discovered_methods"] (<<>>: not set)
    \* ---- _discover_methods / _resolve_method
    graph,          \* the object graph under the SDK root
    dotted,         \* the dotted path handed to _resolve_method
    max_depth,      \* the max_depth handed to _discover_methods
    disc_out,       \* [done, results]: what _discover_methods returned
    res_out,        \* what _resolve_method returned or raised (kind "pending" before)
    \* ---- the script run
    pc,             \* position of the script run
    trigger,        \* what started the current run
    auto_refresh,   \* sidebar checkbox "Auto-refresh"
    simple_mode,    \* sidebar toggle "Simple mode"
    simple_auto_call, \* checkbox "Auto-call on each refresh"
    button,         \* the button pressed for this run ("none": no button)
    chosen,         \* Simple mode: the method picked, NoneStr when none
    endpoint,       \* Advanced mode: the text of the endpoint input
    kwargs_text,    \* Advanced mode: the kind of text in the kwargs box
    conn,           \* number of sdk.connection() scopes open
    invoked,        \* SDK method invocations made in this run
    scanned,        \* discovery scans made in this run
    unscoped,       \* invocations and scans of this run made with no scope open
    shown_error,    \* the error messages displayed in this run
    failure,        \* the failures that occurred in this run
    res,            \* res of the run's _call_ok_unwrap (PendingRes: not called)
    scheduled       \* the refresh step of this run scheduled a following run

histVars == <<history, ticks>>
callVars == <<call_in, call_out>>
presetVars == <<presets, file, last_saved, last_op, discovered_methods>>
discVars == <<graph, dotted, max_depth, disc_out, res_out>>
runVars == <<pc, trigger, auto_refresh, simple_mode, simple_auto_call, button,
             chosen, endpoint, kwargs_text, conn, invoked, scanned, unscoped,
             shown_error, failure, res, scheduled>>
vars == <<histVars, callVars, presetVars, discVars, runVars>>

NoneStr == "None"

Min(a, b) == IF a < b THEN a ELSE b

(***************************************************************************)
(* Rolling history.  The polling variants append one sample per poll tick  *)
(* and keep the most recent HISTORY_MAX samples.                           *)
(***************************************************************************)
HISTORY_MAX == 300

\* Ticks the history specification runs for: past HISTORY_MAX, so that
\* truncation happens.
MaxTicks == 304

\* The sample read at poll tick t (its timestamp identifies it).
Sample(t) == [ts |-> t]

\* Keep the last n entries of h.
TailMut(h, n) == IF Len(h) <= n THEN h ELSE SubSeq(h, 1, n)

Tail_n(h, n) == IF Len(h) <= n THEN h ELSE SubSeq(h, Len(h) - n + 1, Len(h))

\* Append one sample, then truncate to the most recent HISTORY_MAX.
AppendSample(h, s) == Tail_n(Append(h, s), HISTORY_MAX)

HistIdle == history = <<>> /\ ticks = 0

PollTick ==
    /\ ticks < MaxTicks
    /\ ticks' = ticks + 1
    /\ history' = AppendSample(history, Sample(ticks + 1))
    /\ UNCHANGED <<callVars, presetVars, discVars, runVars>>

(***************************************************************************)
(* _call_ok_unwrap(method, **kwargs)                                       *)
(***************************************************************************)
\* What the method does when invoked, what resp.ok() does, and what
\* getattr(resp, "status", None) and getattr(resp, "data", None) give.
InvokeOutcomes == {"returns", "raises"}
OkOutcomes == {"returns", "raises", "no_ok_attr"}
StatusValues == {NoneStr, "200", "404", "500"}
Payloads == {NoneStr, "d1", "d2"}

CallInputs ==
    [invoke : InvokeOutcomes, ok : OkOutcomes, status : StatusValues,
     payload : Payloads, data : Payloads]

NoRaw == [stage |-> NoneStr, status |-> NoneStr, data |-> NoneStr]

CallOkUnwrapMut(m) ==
    IF m.invoke = "raises"
    THEN [success |-> FALSE, data |-> NoneStr, status |-> NoneStr,
          raw |-> [stage |-> "invoke", status |-> NoneStr, data |-> NoneStr]]
    ELSE [success |-> TRUE, data |-> m.payload, status |-> "200", raw |-> NoRaw]

\* m: an element of CallInputs.  The result dict; raw is NoRaw for None.
CallOkUnwrap(m) ==
    IF m.invoke = "raises"
    THEN [success |-> FALSE, data |-> NoneStr, status |-> NoneStr,
          raw |-> [stage |-> "invoke", status |-> NoneStr, data |-> NoneStr]]
    ELSE IF m.ok = "returns"
    THEN [success |-> TRUE, data |-> m.payload, status |-> "200", raw |-> NoRaw]
    ELSE [success |-> FALSE, data |-> NoneStr, status |-> m.status,
          raw |-> [stage |-> "ok_unwrap", status |-> m.status, data |-> m.data]]

\* The value of call_out and of res before the call is made.
PendingRes ==
    [success |-> FALSE, data |-> NoneStr, status |-> NoneStr,
     raw |-> [stage |-> "pending", status |-> NoneStr, data |-> NoneStr]]

IdleCallIn ==
    [invoke |-> "returns", ok |-> "returns", status |-> "200",
     payload |-> NoneStr, data |-> NoneStr]

CallIdle == call_in = IdleCallIn /\ call_out = PendingRes

DoCall ==
    /\ call_out = PendingRes
    /\ call_in \in CallInputs
    /\ call_out' = CallOkUnwrap(call_in)
    /\ UNCHANGED <<call_in, histVars, presetVars, discVars, runVars>>

(***************************************************************************)
(* The object graph under the SDK root.  A graph g gives each node a kind  *)
(* ("obj": a plain object, "fn": a callable, "prim": a str, number, dict,  *)
(* list, tuple or Enum) and each (node, name) what getattr gives: a node,  *)
(* "absent" (AttributeError, and the name is not in dir()) or "raises"     *)
(* (the name is in dir() and its getter raises), and lists its attribute   *)
(* names in the order dir() gives them (sorted).                           *)
(***************************************************************************)
ROOT == "root"
Objs == {"root", "o1", "o2", "o3"}
Leaves == {"f", "p"}
Nodes == Objs \cup Leaves
\* The attribute names of the graphs the helpers are checked on, sorted.
NameOrder == <<"_p", "a", "b">>
Names == {NameOrder[i] : i \in 1..Len(NameOrder)}
PrivateNames == {"_p"}
ABSENT == "absent"
RAISES == "raises"

StartsWithUnderscore(n) == n \in PrivateNames

\* What getattr(o, n) gives; a slot the graph does not list is absent.
Attr(g, o, n) == IF <<o, n>> \in DOMAIN g.attr THEN g.attr[<<o, n>>] ELSE ABSENT

IsCallable(g, o) == g.kind[o] = "fn"

IsPrimitive(g, o) == g.kind[o] = "prim"

\* dir(obj), sorted: the names obj has.
Dir(g, o) == SelectSeq(g.names, LAMBDA n : Attr(g, o, n) # ABSENT)

\* [n for n in dir(obj) if not n.startswith("_")]
PublicNames(g, o) == SelectSeq(Dir(g, o), LAMBDA n : ~StartsWithUnderscore(n))

\* f"{path}.{n}" if path else n
FullPath(path, n) == IF path = <<>> THEN <<n>> ELSE path \o <<".", n>>

\* _sig_str(child): the signature text is not interpreted anywhere.
SigStr(child) == "(...)"

\* Python's order on the characters of a path: "." < "_" < letters.
CharOrder ==
    <<" ", ".", "_p", "a", "b", "brakes", "equipment", "get_brakes_state",
      "get_gripper_configuration", "movement">>

Rank(tok) == CHOOSE i \in 1..Len(CharOrder) : CharOrder[i] = tok

RECURSIVE StrLess(_, _)
StrLess(p, q) ==
    IF q = <<>> THEN FALSE
    ELSE IF p = <<>> THEN TRUE
    ELSE IF Rank(Head(p)) # Rank(Head(q)) THEN Rank(Head(p)) < Rank(Head(q))
    ELSE StrLess(Tail(p), Tail(q))

RECURSIVE InsertSorted(_, _)
InsertSorted(r, sorted) ==
    IF sorted = <<>> THEN <<r>>
    ELSE IF StrLess(r.path, Head(sorted).path) THEN <<r>> \o sorted
    ELSE <<Head(sorted)>> \o InsertSorted(r, Tail(sorted))

\* results.sort(key=lambda r: r["path"]): a stable sort by path.
RECURSIVE SortByPath(_)
SortByPath(rs) ==
    IF rs = <<>> THEN <<>>
    ELSE InsertSorted(rs[Len(rs)], SortByPath(SubSeq(rs, 1, Len(rs) - 1)))

\* seen.add(oid)
MarkSeen(st, child) == [st EXCEPT !.seen = @ \cup {child}]

\* walk(obj, path, depth) of _discover_methods; st holds seen and results.
RECURSIVE Walk(_, _, _, _, _, _)
RECURSIVE WalkNames(_, _, _, _, _, _, _)
Walk(g, md, o, path, depth, st) ==
    IF depth > md THEN st
    ELSE WalkNames(g, md, o, path, depth, PublicNames(g, o), st)

WalkNames(g, md, o, path, depth, names, st) ==
    IF names = <<>> THEN st
    ELSE LET n == Head(names)
             child == Attr(g, o, n)
             full == FullPath(path, n)
             st1 == IF child = RAISES THEN st
                    ELSE IF IsCallable(g, child)
                    THEN [st EXCEPT !.results =
                              Append(@, [path |-> full, signature |-> SigStr(child)])]
                    ELSE IF IsPrimitive(g, child) THEN st
                    ELSE IF child \in st.seen THEN st
                    ELSE Walk(g, md, child, full, depth + 1, MarkSeen(st, child))
         IN  WalkNames(g, md, o, path, depth, Tail(names), st1)

DiscoverMethods(g, md) ==
    SortByPath(Walk(g, md, ROOT, <<>>, 0, [seen |-> {}, results |-> <<>>]).results)

(***************************************************************************)
(* _resolve_method(root, dotted)                                           *)
(***************************************************************************)
\* dotted.split("."): the runs of tokens between the dots, empty runs kept.
RECURSIVE SplitDots(_, _)
SplitDots(s, cur) ==
    IF s = <<>> THEN <<cur>>
    ELSE IF Head(s) = "." THEN <<cur>> \o SplitDots(Tail(s), <<>>)
    ELSE SplitDots(Tail(s), Append(cur, Head(s)))

\* [p for p in dotted.split(".") if p]
Parts(d) == SelectSeq(SplitDots(d, <<>>), LAMBDA p : p # <<>>)

\* getattr(o, seg): a node, ABSENT (AttributeError) or RAISES.  A segment of
\* several tokens names no attribute of the graph.
GetAttr(g, o, seg) == IF Len(seg) = 1 THEN Attr(g, o, seg[1]) ELSE ABSENT

\* reduce(getattr, parts, root): the node reached, or ABSENT / RAISES.
RECURSIVE Reduce(_, _, _)
Reduce(g, parts, o) ==
    IF parts = <<>> THEN o
    ELSE LET c == GetAttr(g, o, Head(parts))
         IN  IF c \in {ABSENT, RAISES} THEN c ELSE Reduce(g, Tail(parts), c)

RuntimeError(why) == [kind |-> "RuntimeError", obj |-> NoneStr, why |-> why]

\* The mutant of ResolveMethod: the callable() test is missing.
ResolveMethodMut(g, d) ==
    LET o == Reduce(g, Parts(d), ROOT)
    IN  IF o \in {ABSENT, RAISES} THEN RuntimeError("getattr")
        ELSE [kind |-> "returns", obj |-> o, why |-> NoneStr]

\* What _resolve_method returns ("returns", the object) or raises.
ResolveMethod(g, d) ==
    LET o == Reduce(g, Parts(d), ROOT)
    IN  IF o \in {ABSENT, RAISES} THEN RuntimeError("getattr")
        ELSE IF ~IsCallable(g, o) THEN RuntimeError("not callable")
        ELSE [kind |-> "returns", obj |-> o, why |-> NoneStr]

(***************************************************************************)
(* The graphs and paths the helpers are checked on.                        *)
(***************************************************************************)
DEFAULT_MAX_DEPTH == 2

DiscSlots == ({"root", "o1", "o2"} \X {"a", "b"}) \cup {<<"o3", "a">>}
DiscTargets == {ABSENT, "o1", "o2", "o3", "f", "p"}
DiscKind == [o \in Nodes |-> IF o = "f" THEN "fn" ELSE IF o = "p" THEN "prim" ELSE "obj"]

\* A graph for _discover_methods: the root and three plain objects below it
\* (o3 has the one attribute a), a callable and a primitive; the root may
\* have a private callable.
DiscGraph(h, priv) ==
    [kind |-> DiscKind, names |-> NameOrder,
     attr |-> [s \in DiscSlots \cup {<<ROOT, "_p">>} |->
                 IF s \in DiscSlots THEN h[s] ELSE priv]]

IdleGraph == [kind |-> DiscKind, names |-> NameOrder, attr |-> <<>>]
PendingDisc == [done |-> FALSE, results |-> <<>>]
PendingResolve == [kind |-> "pending", obj |-> NoneStr, why |-> NoneStr]

DiscIdle ==
    /\ graph = IdleGraph /\ dotted = <<>> /\ max_depth = DEFAULT_MAX_DEPTH
    /\ disc_out = PendingDisc /\ res_out = PendingResolve

\* Graphs for _resolve_method: the root and one object below it, either of
\* them callable or not, and a callable; an attribute may be absent, raise,
\* or lead to any of the three.
ResSlots == {"root", "o1"} \X {"a", "b"}
ResTargets == {ABSENT, RAISES, "root", "o1", "f"}

ResGraph(h, rootKind, o1Kind) ==
    [kind |-> [o \in Nodes |-> IF o = ROOT THEN rootKind
                               ELSE IF o = "o1" THEN o1Kind ELSE DiscKind[o]],
     names |-> NameOrder, attr |-> h]

\* The dotted paths handed to _resolve_method: up to MaxDotted tokens.
MaxDotted == 3
DottedTokens == {"a", "b", "."}
DottedTexts == UNION {[1..n -> DottedTokens] : n \in 0..MaxDotted}

Resolve ==
    /\ res_out.kind = "pending"
    /\ res_out' = ResolveMethod(graph, dotted)
    /\ UNCHANGED <<graph, dotted, max_depth, disc_out,
                   histVars, callVars, presetVars, runVars>>

Discover ==
    /\ ~disc_out.done
    /\ disc_out' = [done |-> TRUE, results |-> DiscoverMethods(graph, max_depth)]
    /\ UNCHANGED <<graph, dotted, max_depth, res_out,
                   histVars, callVars, presetVars, runVars>>

(***************************************************************************)
(* json.dump(presets, f, indent=2) and json.load(f), on lists of strings.  *)
(* A text is a sequence of tokens: the punctuation [ ] , and the quote,    *)
(* the whitespace tokens, a digit, and the tokens of the strings.          *)
(***************************************************************************)
QUOTE == "\""
NL == "\n"
SP == " "

Quoted(str) == <<QUOTE>> \o str \o <<QUOTE>>

\* The items of a non-empty list, each on a line of its own, indented by 2.
RECURSIVE DumpItems(_)
DumpItems(l) ==
    IF Len(l) = 1 THEN <<NL, SP, SP>> \o Quoted(l[1]) \o <<NL>>
    ELSE <<NL, SP, SP>> \o Quoted(Head(l)) \o <<",">> \o DumpItems(Tail(l))

\* The mutant of JsonDump: the items are written last first.
RECURSIVE Reverse(_)
Reverse(l) == IF l = <<>> THEN <<>> ELSE Append(Reverse(Tail(l)), Head(l))

JsonDumpMut(l) ==
    IF l = <<>> THEN <<"[", "]">> ELSE <<"[">> \o DumpItems(Reverse(l)) \o <<"]">>

JsonDump(l) ==
    IF l = <<>> THEN <<"[", "]">> ELSE <<"[">> \o DumpItems(l) \o <<"]">>

IsWs(tok) == tok \in {NL, SP}

\* The first position at or after i that holds no whitespace (Len + 1: none).
RECURSIVE SkipWs(_, _)
SkipWs(t, i) == IF i <= Len(t) /\ IsWs(t[i]) THEN SkipWs(t, i + 1) ELSE i

\* The position of the quote closing the string opened before i (0: none).
RECURSIVE ClosingQuote(_, _)
ClosingQuote(t, i) ==
    IF i > Len(t) THEN 0
    ELSE IF t[i] = QUOTE THEN i ELSE ClosingQuote(t, i + 1)

JsonError == [kind |-> "error", val |-> <<>>, next |-> 0]

\* The strings of a list from position i on, after acc; next: past the "]".
RECURSIVE ParseItems(_, _, _)
ParseItems(t, i, acc) ==
    LET j == SkipWs(t, i)
    IN  IF j > Len(t) \/ t[j] # QUOTE THEN JsonError
        ELSE LET c == ClosingQuote(t, j + 1)
                 k == SkipWs(t, c + 1)
                 item == SubSeq(t, j + 1, c - 1)
             IN  IF c = 0 \/ k > Len(t) THEN JsonError
                 ELSE IF t[k] = "," THEN ParseItems(t, k + 1, Append(acc, item))
                 ELSE IF t[k] = "]"
                 THEN [kind |-> "list", val |-> Append(acc, item), next |-> k + 1]
                 ELSE JsonError

\* The value that starts at position i: a list of strings, a string, a number.
ParseValue(t, i) ==
    IF i > Len(t) THEN JsonError
    ELSE IF t[i] = "["
    THEN LET j == SkipWs(t, i + 1)
         IN  IF j <= Len(t) /\ t[j] = "]"
             THEN [kind |-> "list", val |-> <<>>, next |-> j + 1]
             ELSE ParseItems(t, i + 1, <<>>)
    ELSE IF t[i] = QUOTE
    THEN LET c == ClosingQuote(t, i + 1)
         IN  IF c = 0 THEN JsonError
             ELSE [kind |-> "other", val |-> <<>>, next |-> c + 1]
    ELSE IF t[i] = "5" THEN [kind |-> "other", val |-> <<>>, next |-> i + 1]
    ELSE JsonError

\* json.load: kind "list" with the strings, "other" (a value that is no
\* list), or "error" (json.JSONDecodeError).
JsonLoad(t) ==
    LET v == ParseValue(t, SkipWs(t, 1))
    IN  IF v.kind = "error" THEN JsonError
        ELSE IF SkipWs(t, v.next) <= Len(t) THEN JsonError
        ELSE v

(***************************************************************************)
(* Presets: st.session_state["presets"], PRESETS_PATH and the handlers of  *)
(* the buttons that change them.  A handler is the whole script run made   *)
(* for the button.                                                         *)
(***************************************************************************)
GET_BRAKES_STATE == <<"movement", ".", "brakes", ".", "get_brakes_state">>
GET_GRIPPER_CONFIGURATION == <<"equipment", ".", "get_gripper_configuration">>
DEFAULT_PRESETS == <<GET_BRAKES_STATE, GET_GRIPPER_CONFIGURATION>>

\* The SDK object graph of the page: the sub-clients and methods that the
\* default presets name.
AppSdk ==
    [kind |-> [o \in {"root", "movement", "brakes", "equipment"} |-> "obj"]
              @@ [o \in {"get_brakes_state", "get_gripper_configuration"} |-> "fn"],
     names |-> <<"brakes", "equipment", "get_brakes_state",
                 "get_gripper_configuration", "movement">>,
     attr |-> (<<"root", "movement">> :> "movement")
              @@ (<<"movement", "brakes">> :> "brakes")
              @@ (<<"brakes", "get_brakes_state">> :> "get_brakes_state")
              @@ (<<"root", "equipment">> :> "equipment")
              @@ (<<"equipment", "get_gripper_configuration">> :>
                      "get_gripper_configuration")]

\* What the user may type in the endpoint input of Advanced mode.
EndpointTexts == {<<>>, <<SP>>, <<"brakes">>, GET_BRAKES_STATE}

\* str.strip()
RECURSIVE LStrip(_)
LStrip(str) == IF str # <<>> /\ IsWs(Head(str)) THEN LStrip(Tail(str)) ELSE str

RECURSIVE RStrip(_)
RStrip(str) ==
    IF str # <<>> /\ IsWs(str[Len(str)]) THEN RStrip(SubSeq(str, 1, Len(str) - 1))
    ELSE str

Strip(str) == RStrip(LStrip(str))

\* x in l
In(x, l) == \E i \in 1..Len(l) : l[i] = x

\* l.remove(x): without the first x (callers make sure x is in l).
RemoveFirst(l, x) ==
    LET i == CHOOSE k \in 1..Len(l) : l[k] = x /\ \A m \in 1..(k - 1) : l[m] # x
    IN  SubSeq(l, 1, i - 1) \o SubSeq(l, i + 1, Len(l))

\* if x not in presets: presets.append(x)
AddPreset(l, x) == IF In(x, l) THEN l ELSE Append(l, x)

\* [m["path"] for m in disc]
Options(disc) == [i \in 1..Len(disc) |-> disc[i].path]

NoFile == [exists |-> FALSE, text |-> <<>>]
FileOf(text) == [exists |-> TRUE, text |-> text]
NoSave == [state |-> "none", list |-> <<>>]
\* The record of a handler; a Load records the presets it found.
Op(name, outcome) ==
    [name |-> name, outcome |-> outcome,
     before |-> IF name = "Load" THEN presets ELSE <<>>]

\* Lists a file found at session start may hold: its length, its strings.
MaxFileLen == 2
FileStrings == {<<"brakes">>, GET_BRAKES_STATE}
FileLists == UNION {[1..n -> FileStrings] : n \in 0..MaxFileLen}

\* Texts a file found at session start may hold: a number, a string, a
\* list cut short, and the dump of a list.
InitialFiles ==
    {NoFile, FileOf(<<"5">>), FileOf(Quoted(<<"brakes">>)), FileOf(<<"[">>)}
    \cup {FileOf(JsonDump(l)) : l \in FileLists}

unchangedByPresets == <<histVars, callVars, discVars, runVars>>

\* sidebar, "Discover methods (depth 2)"
DiscoverBtn ==
    /\ discovered_methods' = DiscoverMethods(AppSdk, DEFAULT_MAX_DEPTH)
    /\ last_op' = Op("Discover", "ok")
    /\ UNCHANGED <<presets, file, last_saved, unchangedByPresets>>

\* "Save": open(PRESETS_PATH, "w") may fail (the file is left as it was),
\* and so may the write after it (the file is left empty, or cut short
\* before its last token).
SavePresets ==
    \/ /\ file' = FileOf(JsonDump(presets))
       /\ last_saved' = [state |-> "ok", list |-> presets]
       /\ last_op' = Op("Save", "saved")
       /\ UNCHANGED <<presets, discovered_methods, unchangedByPresets>>
    \/ /\ last_saved' = [state |-> "failed", list |-> <<>>]
       /\ last_op' = Op("Save", "open failed")
       /\ UNCHANGED <<presets, file, discovered_methods, unchangedByPresets>>
    \/ /\ \E k \in {0, Len(JsonDump(presets)) - 1} :
              file' = FileOf(SubSeq(JsonDump(presets), 1, k))
       /\ last_saved' = [state |-> "failed", list |-> <<>>]
       /\ last_op' = Op("Save", "write failed")
       /\ UNCHANGED <<presets, discovered_methods, unchangedByPresets>>

\* "Load"
LoadPresets ==
    LET data == JsonLoad(file.text)
    IN  /\ IF ~file.exists
           THEN presets' = presets /\ last_op' = Op("Load", "no file")
           ELSE IF data.kind = "error"
           THEN presets' = presets /\ last_op' = Op("Load", "load failed")
           ELSE IF data.kind = "list"
           THEN presets' = data.val /\ last_op' = Op("Load", "loaded")
           ELSE presets' = presets /\ last_op' = Op("Load", "not a list")
        /\ UNCHANGED <<file, last_saved, discovered_methods, unchangedByPresets>>

\* "Clear"
ClearPresets ==
    /\ presets' = <<>>
    /\ last_op' = Op("Clear", "ok")
    /\ UNCHANGED <<file, last_saved, discovered_methods, unchangedByPresets>>

\* "Reset"
ResetPresets ==
    /\ presets' = DEFAULT_PRESETS
    /\ last_op' = Op("Reset", "ok")
    /\ UNCHANGED <<file, last_saved, discovered_methods, unchangedByPresets>>

\* Simple mode, source Presets: "Remove from presets" of the preset picked.
RemovePreset ==
    /\ \E i \in 1..Len(presets) :
          LET picked == presets[i]
          IN  /\ picked # <<>>
              /\ presets' = RemoveFirst(presets, picked)
    /\ last_op' = Op("Remove", "removed")
    /\ UNCHANGED <<file, last_saved, discovered_methods, unchangedByPresets>>

\* Simple mode, source Discovered: "Add to presets" of the method picked.
AddFromDiscovered ==
    /\ \E i \in 1..Len(discovered_methods) :
          LET picked == Options(discovered_methods)[i]
          IN  /\ picked # <<>>
              /\ presets' = AddPreset(presets, picked)
              /\ last_op' = Op("Add", IF In(picked, presets) THEN "already" ELSE "added")
    /\ UNCHANGED <<file, last_saved, discovered_methods, unchangedByPresets>>

\* Advanced mode: "Add to presets" of the endpoint typed.
AddFromAdv ==
    /\ \E typed \in EndpointTexts :
          /\ Strip(typed) # <<>>
          /\ presets' = AddPreset(presets, typed)
          /\ last_op' = Op("Add", IF In(typed, presets) THEN "already" ELSE "added")
    /\ UNCHANGED <<file, last_saved, discovered_methods, unchangedByPresets>>

\* Advanced mode: "Remove from presets" of the endpoint typed.
RemoveFromAdv ==
    /\ \E typed \in EndpointTexts :
          /\ Strip(typed) # <<>>
          /\ IF In(typed, presets)
             THEN presets' = RemoveFirst(presets, typed)
                  /\ last_op' = Op("Remove", "removed")
             ELSE presets' = presets /\ last_op' = Op("Remove", "not in presets")
    /\ UNCHANGED <<file, last_saved, discovered_methods, unchangedByPresets>>

PresetsIdle ==
    /\ presets = DEFAULT_PRESETS /\ file = NoFile /\ last_saved = NoSave
    /\ last_op = [name |-> "none", outcome |-> "none", before |-> <<>>]
    /\ discovered_methods = <<>>

(***************************************************************************)
(* The script run.  Streamlit runs the script top to bottom for every user *)
(* interaction, for every st.rerun() and for every refresh; pc is the      *)
(* place the run has reached.  The presets and the discovered methods are  *)
(* seen here through what the user picks from them (chosen).               *)
(***************************************************************************)
SidebarButtons == {"none", "discover", "save", "load", "clear", "reset"}
SimpleButtons == {"remove_preset", "add_from_discovered", "load_template", "call"}
AdvancedButtons == {"add_from_adv", "remove_from_adv", "use_selected"}

\* What the Simple-mode pickers may hold: nothing, or a string of the
\* presets (typed in Advanced mode) or of the discovered methods.
ChosenTexts ==
    {e \in EndpointTexts : e = <<>> \/ Strip(e) # <<>>} \cup {GET_GRIPPER_CONFIGURATION}

\* The kwargs box: a JSON object, a text that is no JSON, or a JSON value
\* that is no object (a list, a number, null).
KwargsTexts == {"object", "invalid", "non_object"}

\* The run is over: it completed (sleeping: a refresh is scheduled; done:
\* none is), or an exception left the script (crashed).
RunEnded == {"sleeping", "done", "crashed"}

\* with sdk.connection(): entering and leaving the scope.

OpenScope(c) == c + 1

\* The mutant of CloseScope: the scope stays open.
CloseScopeMut(c) == c

CloseScope(c) == c - 1

\* The mutant of ShouldCall: neither the checkbox nor the button is looked at.
ShouldCallMut(ch, auto_call, btn) == ch # <<>>

\* should_call = chosen and (simple_auto_call or st.button("Call method"))
ShouldCall(ch, auto_call, btn) == ch # <<>> /\ (auto_call \/ btn = "call")

\* The mutant of RefreshSchedules: the flag is not looked at.
RefreshSchedulesMut(flag) == TRUE

\* if auto_refresh: (st.autorefresh | time.sleep; _safe_rerun())
RefreshSchedules(flag) == flag

\* The values a run starts with: nothing open, nothing called, no error.
FreshRun ==
    /\ conn' = 0 /\ invoked' = 0 /\ scanned' = 0 /\ unscoped' = 0
    /\ shown_error' = {} /\ failure' = {} /\ res' = PendingRes
    /\ scheduled' = FALSE

unchangedByRun == <<histVars, callVars, discVars, presets, file, last_saved, last_op>>

\* The widgets as the user may have set them in the mode picked.
PickWidgets ==
    /\ simple_mode' \in BOOLEAN
    /\ IF simple_mode'
       THEN /\ simple_auto_call' \in BOOLEAN
            /\ chosen' \in ChosenTexts
            /\ button' \in SidebarButtons \cup SimpleButtons
            /\ endpoint' = <<>> /\ kwargs_text' = "object"
       ELSE /\ simple_auto_call' = TRUE
            /\ chosen' = <<>>
            /\ button' \in SidebarButtons \cup AdvancedButtons
            /\ endpoint' \in EndpointTexts
            /\ kwargs_text' \in KwargsTexts

\* The user changes a widget or presses a button: a run starts.
StartRun ==
    /\ pc \in RunEnded
    /\ pc' = "sidebar" /\ trigger' = "user"
    /\ auto_refresh' \in BOOLEAN
    /\ PickWidgets
    /\ FreshRun
    /\ UNCHANGED <<discovered_methods, unchangedByRun>>

\* _safe_rerun() in a handler: the run is abandoned and the script runs
\* again, the pickers showing the changed lists.
Rerun ==
    /\ pc' = "sidebar" /\ trigger' = "rerun" /\ button' = "none"
    /\ chosen' \in (IF simple_mode THEN ChosenTexts ELSE {<<>>})
    /\ FreshRun
    /\ UNCHANGED <<auto_refresh, simple_mode, simple_auto_call, endpoint, kwargs_text>>

\* The handler goes on to the end of the script.
GoOn(next) ==
    /\ pc' = next
    /\ UNCHANGED <<trigger, auto_refresh, simple_mode, simple_auto_call, button,
                   chosen, endpoint, kwargs_text>>

\* An exception leaves the script: Streamlit shows it and the run is over.
Crash(why) ==
    /\ GoOn("crashed")
    /\ failure' = failure \cup {why}
    /\ UNCHANGED <<invoked, scanned, unscoped, shown_error, res, scheduled>>

\* Sidebar: the "Discover methods" button.
Sidebar ==
    /\ pc = "sidebar"
    /\ GoOn(IF button = "discover" THEN "disc_open" ELSE "presets")
    /\ UNCHANGED <<conn, invoked, scanned, unscoped, shown_error, failure, res,
                   scheduled, discovered_methods, unchangedByRun>>

\* with sdk.connection(): of the discovery; entering the scope may raise.
DiscOpen ==
    /\ pc = "disc_open"
    /\ \/ /\ GoOn("disc_scan")
          /\ conn' = OpenScope(conn)
          /\ UNCHANGED <<invoked, scanned, unscoped, shown_error, failure, res, scheduled>>
       \/ Crash("connect") /\ UNCHANGED conn
    /\ UNCHANGED <<discovered_methods, unchangedByRun>>

\* methods = _discover_methods(sdk, max_depth=2)
DiscScan ==
    /\ pc = "disc_scan"
    /\ GoOn("disc_close")
    /\ scanned' = scanned + 1
    /\ unscoped' = IF conn = 1 THEN unscoped ELSE unscoped + 1
    /\ discovered_methods' = DiscoverMethods(AppSdk, DEFAULT_MAX_DEPTH)
    /\ UNCHANGED <<conn, invoked, shown_error, failure, res, scheduled, unchangedByRun>>

DiscClose ==
    /\ pc = "disc_close"
    /\ GoOn("presets")
    /\ conn' = CloseScope(conn)
    /\ UNCHANGED <<invoked, scanned, unscoped, shown_error, failure, res, scheduled,
                   discovered_methods, unchangedByRun>>

\* Manage presets: Clear and Reset rerun; Load reruns when the file held a
\* list and reports otherwise; Save reports, success or failure, and goes on.
ManagePresets ==
    /\ pc = "presets"
    /\ \/ /\ button \in {"clear", "reset", "load"}
          /\ Rerun
       \/ /\ button \in {"load", "save"}
          /\ GoOn("main")
          /\ \E failed \in BOOLEAN :
                shown_error' = IF failed THEN shown_error \cup {button} ELSE shown_error
          /\ UNCHANGED <<conn, invoked, scanned, unscoped, failure, res, scheduled>>
       \/ /\ button \notin {"clear", "reset", "load", "save"}
          /\ GoOn("main")
          /\ UNCHANGED <<conn, invoked, scanned, unscoped, shown_error, failure, res,
                         scheduled>>
    /\ UNCHANGED <<discovered_methods, unchangedByRun>>

\* The error st.error / result_slot.error shows for a failure.
ShowError(why) ==
    /\ shown_error' = shown_error \cup {why}
    /\ failure' = failure \cup {why}

\* Simple mode up to the parameter form: the Remove and Add buttons, then
\* _resolve_method and inspect.signature of the chosen method under try;
\* an error there is shown and unsets chosen.
MainSimple ==
    /\ pc = "main" /\ simple_mode
    /\ \/ /\ button \in {"remove_preset", "add_from_discovered"} /\ chosen # <<>>
          /\ Rerun
       \/ /\ button = "load_template" /\ chosen # <<>>
          /\ ResolveMethod(AppSdk, chosen).kind = "returns"
          /\ Rerun
       \/ /\ button # "remove_preset"
          /\ pc' = "simple_decide"
          /\ IF chosen # <<>> /\ ResolveMethod(AppSdk, chosen).kind # "returns"
             THEN chosen' = <<>> /\ ShowError("resolve")
             ELSE UNCHANGED <<chosen, shown_error, failure>>
          /\ UNCHANGED <<trigger, auto_refresh, simple_mode, simple_auto_call, button,
                         endpoint, kwargs_text, conn, invoked, scanned, unscoped, res,
                         scheduled>>
       \/ /\ button # "remove_preset"
          /\ chosen # <<>> /\ ResolveMethod(AppSdk, chosen).kind = "returns"
          /\ pc' = "simple_decide"
          /\ chosen' = <<>> /\ ShowError("signature")
          /\ UNCHANGED <<trigger, auto_refresh, simple_mode, simple_auto_call, button,
                         endpoint, kwargs_text, conn, invoked, scanned, unscoped, res,
                         scheduled>>
    /\ UNCHANGED <<discovered_methods, unchangedByRun>>

SimpleDecide ==
    /\ pc = "simple_decide"
    /\ GoOn(IF ShouldCall(chosen, simple_auto_call, button)
            THEN "simple_open" ELSE "refresh")
    /\ UNCHANGED <<conn, invoked, scanned, unscoped, shown_error, failure, res,
                   scheduled, discovered_methods, unchangedByRun>>

\* with sdk.connection(): of the Simple-mode call; entering it may raise.
SimpleOpen ==
    /\ pc = "simple_open"
    /\ \/ /\ GoOn("simple_invoke")
          /\ conn' = OpenScope(conn)
          /\ UNCHANGED <<invoked, scanned, unscoped, shown_error, failure, res, scheduled>>
       \/ Crash("connect") /\ UNCHANGED conn
    /\ UNCHANGED <<discovered_methods, unchangedByRun>>

\* m = _resolve_method(sdk, chosen); coerced = ...; res = _call_ok_unwrap(m, **coerced)
\* The second _resolve_method is outside try: its error leaves the script.
SimpleInvoke ==
    /\ pc = "simple_invoke"
    /\ IF ResolveMethod(AppSdk, chosen).kind # "returns"
       THEN Crash("resolve") /\ conn' = CloseScope(conn)
       ELSE /\ GoOn("simple_close")
            /\ \E m \in CallInputs : res' = CallOkUnwrap(m)
            /\ invoked' = invoked + 1
            /\ unscoped' = IF conn = 1 THEN unscoped ELSE unscoped + 1
            /\ UNCHANGED <<conn, scanned, shown_error, failure, scheduled>>
    /\ UNCHANGED <<discovered_methods, unchangedByRun>>

SimpleClose ==
    /\ pc = "simple_close"
    /\ GoOn("simple_show")
    /\ conn' = CloseScope(conn)
    /\ UNCHANGED <<invoked, scanned, unscoped, shown_error, failure, res, scheduled,
                   discovered_methods, unchangedByRun>>

\* result_slot.success / result_slot.error
ShowResult(next) ==
    /\ GoOn(next)
    /\ IF res.success THEN UNCHANGED <<shown_error, failure>> ELSE ShowError("invoke")
    /\ UNCHANGED <<conn, invoked, scanned, unscoped, res, scheduled,
                   discovered_methods, unchangedByRun>>

SimpleShow == pc = "simple_show" /\ ShowResult("refresh")

\* Advanced mode up to the call: the Add and Remove buttons, json.loads of
\* the kwargs under try, the "Use selected" button.
MainAdvanced ==
    /\ pc = "main" /\ ~simple_mode
    /\ \/ /\ button \in {"add_from_adv", "remove_from_adv"} /\ Strip(endpoint) # <<>>
          /\ Rerun
       \/ /\ button = "use_selected" /\ discovered_methods # <<>>
          /\ Rerun
       \/ /\ button = "use_selected" => discovered_methods = <<>>
          /\ GoOn("adv_open")
          /\ IF kwargs_text = "invalid"
             THEN ShowError("parse")
             ELSE UNCHANGED <<shown_error, failure>>
          /\ UNCHANGED <<conn, invoked, scanned, unscoped, res, scheduled>>
    /\ UNCHANGED <<discovered_methods, unchangedByRun>>

\* with sdk.connection(): of the Advanced-mode call; entering it may raise.
AdvOpen ==
    /\ pc = "adv_open"
    /\ \/ /\ GoOn("adv_resolve")
          /\ conn' = OpenScope(conn)
          /\ UNCHANGED <<invoked, scanned, unscoped, shown_error, failure, res, scheduled>>
       \/ Crash("connect") /\ UNCHANGED conn
    /\ UNCHANGED <<discovered_methods, unchangedByRun>>

\* try: method = _resolve_method(sdk, endpoint) except: result_slot.error
AdvResolve ==
    /\ pc = "adv_resolve"
    /\ IF ResolveMethod(AppSdk, endpoint).kind # "returns"
       THEN GoOn("adv_close") /\ ShowError("resolve")
       ELSE GoOn("adv_coerce") /\ UNCHANGED <<shown_error, failure>>
    /\ UNCHANGED <<conn, invoked, scanned, unscoped, res, scheduled,
                   discovered_methods, unchangedByRun>>

\* coerced = _coerce_kwargs_to_models(method, call_kwargs): dict(kwargs)
\* raises TypeError for a value that is no object, outside every try; the
\* with statement closes the scope as the exception leaves.
AdvCoerce ==
    /\ pc = "adv_coerce"
    /\ IF kwargs_text = "non_object"
       THEN Crash("coerce") /\ conn' = CloseScope(conn)
       ELSE /\ GoOn("adv_invoke")
            /\ UNCHANGED <<conn, invoked, scanned, unscoped, shown_error, failure, res,
                           scheduled>>
    /\ UNCHANGED <<discovered_methods, unchangedByRun>>

\* res = _call_ok_unwrap(method, **coerced)
AdvInvoke ==
    /\ pc = "adv_invoke"
    /\ GoOn("adv_show")
    /\ \E m \in CallInputs : res' = CallOkUnwrap(m)
    /\ invoked' = invoked + 1
    /\ unscoped' = IF conn = 1 THEN unscoped ELSE unscoped + 1
    /\ UNCHANGED <<conn, scanned, shown_error, failure, scheduled,
                   discovered_methods, unchangedByRun>>

AdvShow == pc = "adv_show" /\ ShowResult("adv_close")

AdvClose ==
    /\ pc = "adv_close"
    /\ GoOn("refresh")
    /\ conn' = CloseScope(conn)
    /\ UNCHANGED <<invoked, scanned, unscoped, shown_error, failure, res, scheduled,
                   discovered_methods, unchangedByRun>>

\* The end of the script: the refresh step.
Refresh ==
    /\ pc = "refresh"
    /\ scheduled' = RefreshSchedules(auto_refresh)
    /\ GoOn(IF scheduled' THEN "sleeping" ELSE "done")
    /\ UNCHANGED <<conn, invoked, scanned, unscoped, shown_error, failure, res,
                   discovered_methods, unchangedByRun>>

\* The run the refresh step scheduled: the widgets are as they were.
RefreshRun ==
    /\ pc = "sleeping"
    /\ pc' = "sidebar" /\ trigger' = "refresh" /\ button' = "none"
    /\ FreshRun
    /\ UNCHANGED <<auto_refresh, simple_mode, simple_auto_call, chosen, endpoint,
                   kwargs_text, discovered_methods, unchangedByRun>>

\* The first run of a session: the widgets hold their defaults and the
\* preset picker the first default preset.
RunFirst ==
    /\ pc = "sidebar" /\ trigger = "load"
    /\ auto_refresh = TRUE /\ simple_mode = TRUE /\ simple_auto_call = TRUE
    /\ button = "none" /\ chosen = DEFAULT_PRESETS[1]
    /\ endpoint = <<>> /\ kwargs_text = "object"
    /\ conn = 0 /\ invoked = 0 /\ scanned = 0 /\ unscoped = 0
    /\ shown_error = {} /\ failure = {} /\ res = PendingRes /\ scheduled = FALSE

(***************************************************************************)
(* Specifications                                                          *)
(***************************************************************************)
\* The script run of the page.
Init == HistIdle /\ CallIdle /\ DiscIdle /\ PresetsIdle /\ RunFirst

Next ==
    \/ StartRun \/ Sidebar \/ DiscOpen \/ DiscScan \/ DiscClose \/ ManagePresets
    \/ MainSimple \/ SimpleDecide \/ SimpleOpen \/ SimpleInvoke \/ SimpleClose
    \/ SimpleShow \/ MainAdvanced \/ AdvOpen \/ AdvResolve \/ AdvCoerce
    \/ AdvInvoke \/ AdvShow \/ AdvClose \/ Refresh \/ RefreshRun

Spec == Init /\ [][Next]_vars

\* The presets handlers, from a session start with any file at PRESETS_PATH.
InitPresets ==
    /\ HistIdle /\ CallIdle /\ DiscIdle /\ RunFirst
    /\ presets = DEFAULT_PRESETS /\ file \in InitialFiles /\ last_saved = NoSave
    /\ last_op = [name |-> "none", outcome |-> "none", before |-> <<>>]
    /\ discovered_methods = <<>>

NextPresets ==
    \/ DiscoverBtn \/ SavePresets \/ LoadPresets \/ ClearPresets \/ ResetPresets
    \/ RemovePreset \/ AddFromDiscovered \/ AddFromAdv \/ RemoveFromAdv

SpecPresets == InitPresets /\ [][NextPresets]_vars

\* _call_ok_unwrap on every behaviour of the method and of its response.
InitCall ==
    /\ HistIdle /\ DiscIdle /\ PresetsIdle /\ RunFirst
    /\ call_in \in CallInputs /\ call_out = PendingRes

SpecCall == InitCall /\ [][DoCall]_vars

\* _discover_methods on every graph of DiscGraph.
InitDiscover ==
    /\ HistIdle /\ CallIdle /\ PresetsIdle /\ RunFirst
    /\ \E h \in [DiscSlots -> DiscTargets], priv \in {ABSENT, "f"} :
          graph = DiscGraph(h, priv)
    /\ dotted = <<>> /\ max_depth = DEFAULT_MAX_DEPTH
    /\ disc_out = PendingDisc /\ res_out = PendingResolve

SpecDiscover == InitDiscover /\ [][Discover]_vars

\* _resolve_method on every graph of ResGraph and every path of DottedTexts.
InitResolve ==
    /\ HistIdle /\ CallIdle /\ PresetsIdle /\ RunFirst
    /\ \E h \in [ResSlots -> ResTargets], rk \in {"obj", "fn"}, ok \in {"obj", "fn"} :
          graph = ResGraph(h, rk, ok)
    /\ dotted \in DottedTexts /\ max_depth = DEFAULT_MAX_DEPTH
    /\ disc_out = PendingDisc /\ res_out = PendingResolve

SpecResolve == InitResolve /\ [][Resolve]_vars

\* The rolling history over MaxTicks poll ticks.
InitHistory == HistIdle /\ CallIdle /\ DiscIdle /\ PresetsIdle /\ RunFirst

SpecHistory == InitHistory /\ [][PollTick]_vars

(***************************************************************************)
(* Claims                                                                  *)
(***************************************************************************)
NoDuplicates(l) == \A i, j \in 1..Len(l) : l[i] = l[j] => i = j

\* C1: after any "Add to presets" (from the Discovered picker or from the
\* endpoint input), whatever Add, Remove, Clear, Reset, Save and Load came
\* before, the presets hold no entry twice.
C1_NoDuplicatesAfterAdd == last_op.name = "Add" => NoDuplicates(presets)

\* C2: _call_ok_unwrap returns a result whatever the method and its
\* response do: stage "invoke" with no data and no status when the
\* invocation raises, stage "ok_unwrap" with no data and the response's
\* status when .ok() raises, and success with status 200 and no raw only
\* when both succeed.
C2_CallOkUnwrapTotal ==
    call_out # PendingRes =>
        /\ call_in.invoke = "raises" =>
               /\ ~call_out.success /\ call_out.data = NoneStr
               /\ call_out.status = NoneStr /\ call_out.raw.stage = "invoke"
        /\ (call_in.invoke = "returns" /\ call_in.ok # "returns") =>
               /\ ~call_out.success /\ call_out.data = NoneStr
               /\ call_out.raw.stage = "ok_unwrap"
               /\ call_out.status = call_in.status
               /\ call_out.raw.status = call_in.status
        /\ call_out.success <=> (call_in.invoke = "returns" /\ call_in.ok = "returns")
        /\ call_out.success =>
               /\ call_out.status = "200" /\ call_out.raw = NoRaw
               /\ call_out.data = call_in.payload

C2_Witness ==
    /\ call_in.invoke = "returns" /\ call_in.ok = "raises" /\ call_in.status = "500"
    /\ call_out.raw.stage = "ok_unwrap" /\ call_out.status = "500"

\* The failures C3 names: opening the connection, resolving the method
\* path, parsing or coercing the kwargs, invoking the method.
NamedFailures == {"connect", "resolve", "parse", "coerce", "invoke"}

\* C3: a run with Auto-refresh set in which one of the named failures
\* occurred still reaches the refresh step, which schedules the next run.
C3_ErrorsNeverStopLoop ==
    (pc \in RunEnded /\ auto_refresh /\ failure \cap NamedFailures # {}) => scheduled

\* C4: a run that completes schedules a following run exactly when the
\* Auto-refresh flag is set in it, and every run the refresh step starts
\* has the flag set: with the flag cleared only the user starts a run.
C4_RefreshFollowsFlag ==
    /\ pc \in {"sleeping", "done"} => (scheduled <=> auto_refresh)
    /\ scheduled <=> pc = "sleeping"
    /\ trigger = "refresh" => auto_refresh

C4_Witness == pc = "done" /\ ~auto_refresh /\ invoked = 1 /\ trigger = "user"

\* C5: a Load that follows a successful Save sets the presets to the list
\* that Save wrote, same entries in the same order, whatever changed the
\* presets in between; a Load with no file, or with a file that holds no
\* list, leaves the presets as they were.
HoldsList(f) ==
    f.exists /\ Len(f.text) >= 2 /\ f.text[1] = "[" /\ f.text[Len(f.text)] = "]"

C5_SaveLoadRoundTrip ==
    last_op.name = "Load" =>
        /\ last_saved.state = "ok" =>
               presets = last_saved.list /\ last_op.outcome = "loaded"
        /\ ~HoldsList(file) => presets = last_op.before

C5_Witness ==
    /\ last_op.name = "Load" /\ last_op.outcome = "loaded" /\ last_saved.state = "ok"
    /\ Len(presets) = 2 /\ presets[1] # presets[2] /\ presets # last_op.before

\* C6: every SDK method invocation and every discovery scan is made with
\* exactly one scope open, never more than one scope is open, and none is
\* open when the run reaches the refresh step or ends.
C6_ScopedCalls ==
    /\ unscoped = 0
    /\ conn \in {0, 1}
    /\ pc \in ({"refresh"} \cup RunEnded) => conn = 0

C6_Witness ==
    /\ pc = "refresh" /\ scanned = 1 /\ invoked = 1 /\ conn = 0
    /\ res.raw.stage = "invoke"

\* C7: after N poll ticks the history holds min(N, 300) samples, and they
\* are the most recent ones in the order they were appended.
C7_HistoryBounded ==
    /\ Len(history) = Min(ticks, HISTORY_MAX)
    /\ \A i \in 1..Len(history) : history[i] = Sample(ticks - Len(history) + i)

C7_Witness ==
    ticks > HISTORY_MAX /\ Len(history) = HISTORY_MAX /\ history[1] = Sample(ticks - 299)

\* C8: in Simple mode a method is invoked in a run only if a method is
\* chosen, resolves, and the auto-call box is checked or "Call method" was
\* pressed; and a run that completes with the box checked and a chosen,
\* resolved method has made the call.
C8_SimpleCallGuard ==
    simple_mode =>
        /\ invoked > 0 =>
               /\ chosen # <<>>
               /\ ResolveMethod(AppSdk, chosen).kind = "returns"
               /\ simple_auto_call \/ button = "call"
        /\ (pc \in {"refresh", "sleeping", "done"} /\ simple_auto_call /\ chosen # <<>>)
               => invoked = 1

C8_Witness ==
    /\ simple_mode /\ pc = "refresh" /\ invoked = 1
    /\ ~simple_auto_call /\ button = "call"

\* The names of a result path.
PathNames(path) == SelectSeq(path, LAMBDA tok : tok # ".")

\* The object reached from o by the names ns through plain objects only.
RECURSIVE Follow(_, _, _)
Follow(g, ns, o) ==
    IF ns = <<>> THEN o
    ELSE LET c == Attr(g, o, Head(ns))
         IN  IF c \in Objs THEN Follow(g, Tail(ns), c) ELSE ABSENT

\* The plain objects reached from the root by at most k public names.
RECURSIVE Within(_, _)
Within(g, k) ==
    IF k = 0 THEN {ROOT}
    ELSE LET R == Within(g, k - 1)
         IN  R \cup ({Attr(g, o, n) : o \in R, n \in Names \ PrivateNames} \cap Objs)

\* The callable o.n is in the results under a path of at most md + 1 names.
Listed(g, md, results, o, n) ==
    \E i \in 1..Len(results) :
        LET ns == PathNames(results[i].path)
        IN  /\ Len(ns) <= md + 1
            /\ ns[Len(ns)] = n
            /\ Follow(g, SubSeq(ns, 1, Len(ns) - 1), ROOT) = o

\* C9: every callable reached from the root by at most max_depth + 1 public
\* names through plain objects is in the result under such a path, and no
\* path of the result has more than max_depth + 1 names.
C9_DiscoverComplete ==
    disc_out.done =>
        /\ \A o \in Within(graph, max_depth) : \A n \in Names \ PrivateNames :
               (Attr(graph, o, n) \in Nodes /\ IsCallable(graph, Attr(graph, o, n))) =>
                   Listed(graph, max_depth, disc_out.results, o, n)
        /\ \A i \in 1..Len(disc_out.results) :
               Len(PathNames(disc_out.results[i].path)) <= max_depth + 1

\* The places where the segments of a dotted path start, and where the
\* segment that starts at i ends.
SegStarts(d) == {i \in 1..Len(d) : d[i] # "." /\ (i = 1 \/ d[i - 1] = ".")}

SegEnd(d, i) ==
    CHOOSE j \in i..Len(d) :
        (\A k \in i..j : d[k] # ".") /\ (j = Len(d) \/ d[j + 1] = ".")

Segment(d, k) ==
    LET i == CHOOSE x \in SegStarts(d) : Cardinality({y \in SegStarts(d) : y < x}) = k - 1
    IN  SubSeq(d, i, SegEnd(d, i))

\* getattr along the non-empty segments of d leads from the root to obj.
LeadsTo(g, d, obj) ==
    LET n == Cardinality(SegStarts(d))
    IN  \E chain \in [0..n -> Nodes] :
            /\ chain[0] = ROOT /\ chain[n] = obj
            /\ \A k \in 1..n :
                   /\ Len(Segment(d, k)) = 1
                   /\ Attr(g, chain[k - 1], Segment(d, k)[1]) = chain[k]

\* C10: _resolve_method returns a callable reached by following the
\* non-empty segments of the path from the root, or raises RuntimeError; a
\* path with no segment returns the root, and only if the root is callable.
C10_ResolveCallableOrError ==
    res_out.kind # "pending" =>
        /\ res_out.kind \in {"returns", "RuntimeError"}
        /\ res_out.kind = "returns" =>
               /\ IsCallable(graph, res_out.obj)
               /\ LeadsTo(graph, dotted, res_out.obj)
        /\ (res_out.kind = "returns" /\ \A i \in 1..Len(dotted) : dotted[i] = ".") =>
               res_out.obj = ROOT /\ IsCallable(graph, ROOT)

C10_Witness ==
    /\ res_out.kind = "returns" /\ res_out.obj = ROOT
    /\ dotted = <<".", ".">>

====
